---- MODULE Spec2Model ----
(***************************************************************************)
(* State-machine model of the susu-kitchen App component (src/App.tsx):    *)
(* the profile coordinator (active profile + roster + persistence), the    *)
(* draft orchestrator (narration -> draft -> commit/discard), the          *)
(* serving-scale / shopping-list handlers, the enrichment of a recipe      *)
(* (video, step thumbnails), the grounded Q&A box, the ingredient list of  *)
(* the detail view, cooking mode and the restart.                          *)
(*                                                                         *)
(* Conventions                                                             *)
(*  - A JavaScript value that may be null/undefined is a sequence of       *)
(*    length 0 (absent) or 1 (present): Null == <<>>, Some(x) == <<x>>.    *)
(*  - A string that the code builds by concatenation is a sequence of its  *)
(*    pieces, so that what was concatenated stays observable.              *)
(*  - servingsMultiplier is stored in halves (2 == 1x, 1 == 0.5x).         *)
(*  - One action is one event handler together with the React effects     *)
(*    (roster mirror, localStorage writes) that run after it.              *)
(***************************************************************************)
EXTENDS Integers, Sequences, FiniteSets, TLC

VARIABLES
    users,              \* useState<User[]>            App.tsx:285
    currentUser,        \* useState<User>              App.tsx:286
    recipes,            \* useState<Recipe[]>          App.tsx:287
    storedUsers,        \* localStorage susu_app_users
    storedRecipes,      \* localStorage susu_app_recipes
    view,               \* useState<ViewState>         App.tsx:290
    selectedRecipe,     \* useState<Recipe | null>     App.tsx:291
    servingsMultiplier, \* useState(1), in halves      App.tsx:298
    isGenerating,       \* useState(false)             App.tsx:306
    creationStep,       \* 'MEDIA' | 'REVIEW'          App.tsx:307
    draftRecipe,        \* Partial<Recipe> | null      App.tsx:308
    capturedImage,      \* string | null               App.tsx:309
    recorder,           \* AudioRecorder: the closure held while recording
    narrationCalls,     \* generateRecipeFromMedia calls in flight
    imageCalls,         \* generateRecipeImage calls in flight
    now,                \* Date.now()
    videoCalls,         \* handleGenerateVideo(ForActiveRecipe) calls in flight
    thumbCalls,         \* handleVisualizeSteps calls in flight
    enrichStarted,      \* history: video and thumbnail calls started so far
    askSusuQuery,       \* useState('')               App.tsx:300
    susuResponse,       \* {text, sources} | null     App.tsx:301
    isAskingSusu,       \* useState(false)            App.tsx:302
    askCalls,           \* askSusuWithGrounding calls in flight
    currentStepIndex,   \* useState(0)               App.tsx:299
    lastOp,             \* history: the handler that ran last (see below)
    lastMutated,        \* history: per profile id, favorites and list as last mutated
    commitLog,          \* history: ids of the committed drafts, newest first
    discardedDrafts     \* history: ids of the drafts cleared by Discard or Cancel

profileVars == <<users, currentUser, storedUsers>>
recipeVars  == <<recipes, storedRecipes>>
navVars     == <<view, selectedRecipe, servingsMultiplier>>
draftVars   == <<isGenerating, creationStep, draftRecipe, capturedImage>>
asyncVars   == <<recorder, narrationCalls, imageCalls>>
enrichVars  == <<videoCalls, thumbCalls, enrichStarted>>
askVars     == <<askSusuQuery, susuResponse, isAskingSusu, askCalls>>
cookVars    == <<currentStepIndex>>
extVars     == <<enrichVars, askVars, cookVars>>
histVars    == <<lastOp, lastMutated, commitLog, discardedDrafts>>
vars == <<profileVars, recipeVars, navVars, draftVars, asyncVars, now, extVars, histVars>>

(***************************************************************************)
(* Bounds of the model.                                                    *)
(***************************************************************************)
MaxClockTicks    == 2   \* Date.now() readings after start-up
MaxMultiplier    == 3   \* largest servingsMultiplier, in halves (1.5x)
MaxRosterLoad    == 2   \* favorites + shopping items + new avatars held by the roster
MaxInFlight      == 2   \* Gateway calls of one kind in flight at once
MaxEnrichCalls   == 2   \* video and thumbnail calls started in one run

(***************************************************************************)
(* History variables (not program state).                                  *)
(*  lastOp = <<"switch", from, to>>       a profile switch was requested   *)
(*         = <<"toggleFavorite", r, favoritesBefore, b>>  where b is       *)
(*             Some(favorites before the previous toggle) when the         *)
(*             previous handler was a toggle of the same r, else Null      *)
(*         = <<"commit">> | <<"saveRejected">> | <<"discard", draftId>>    *)
(*         = <<"narrationSucceeded">> | <<"narrationFailed">>              *)
(*         = <<"imageResolved", draftId>>                                  *)
(*         = <<"other">>                  any other handler                *)
(***************************************************************************)
Null == <<>>
Some(x) == <<x>>
IsNull(o) == o = <<>>
Val(o) == o[1]

Epoch == 100

(***************************************************************************)
(* Seed data.                                                              *)
(***************************************************************************)
ADMIN == "SUSU"
USER == "USER"

DEFAULT_USERS ==
    << [id |-> "susu", role |-> ADMIN, avatar |-> <<"avatar", "susu">>,
        favorites |-> <<>>, shoppingList |-> <<>>],
       [id |-> "dad",  role |-> USER,  avatar |-> <<"avatar", "dad">>,
        favorites |-> <<>>, shoppingList |-> <<>>],
       [id |-> "kid1", role |-> USER,  avatar |-> <<"avatar", "kid1">>,
        favorites |-> <<>>, shoppingList |-> <<>>],
       [id |-> "kid2", role |-> USER,  avatar |-> <<"avatar", "kid2">>,
        favorites |-> <<>>, shoppingList |-> <<>>] >>

Ingredient(id, item, amount, cents) ==
    [id |-> id, item |-> item, amount |-> amount,
     estimatedCost |-> cents, checked |-> FALSE]

INITIAL_RECIPES ==
    << [id |-> <<"rec", 1>>, title |-> "Sunday Gravy", description |-> "gravy",
        ingredients |-> << Ingredient(<<"ing", 3>>, <<"Garlic">>, "5 cloves", 50) >>,
        instructions |-> <<"sear", "simmer">>,
        instructionThumbnails |-> Null,
        imageUrl |-> Some(<<"seed-image", 1>>), videoUrl |-> Null,
        authorId |-> "susu", createdAt |-> Epoch, difficulty |-> "Medium"],
       [id |-> <<"rec", 2>>, title |-> "Lemon Ricotta Pancakes", description |-> "pancakes",
        ingredients |-> << Ingredient(<<"ing", 2, 1>>, <<"Ricotta Cheese">>, "1 cup", 400),
                           Ingredient(<<"ing", 2, 2>>, <<"Lemons">>, "2", 150) >>,
        instructions |-> <<"fry">>,
        instructionThumbnails |-> Null,
        imageUrl |-> Some(<<"seed-image", 2>>), videoUrl |-> Null,
        authorId |-> "susu", createdAt |-> Epoch, difficulty |-> "Easy"] >>

(***************************************************************************)
(* Array helpers (Array.prototype.map / filter / find / includes).         *)
(***************************************************************************)
Range(s) == {s[i] : i \in DOMAIN s}

Includes(s, x) == \E i \in DOMAIN s : s[i] = x

RECURSIVE FilterOut(_, _)
\* s.filter(e => e !== x)
FilterOut(s, x) ==
    IF s = <<>> THEN <<>>
    ELSE IF Head(s) = x THEN FilterOut(Tail(s), x)
         ELSE <<Head(s)>> \o FilterOut(Tail(s), x)

RECURSIVE FilterOutId(_, _)
\* s.filter(i => i.id !== id)
FilterOutId(s, id) ==
    IF s = <<>> THEN <<>>
    ELSE IF Head(s).id = id THEN FilterOutId(Tail(s), id)
         ELSE <<Head(s)>> \o FilterOutId(Tail(s), id)

\* users.find(u => u.id === userId): the first match, or undefined
FindUser(us, userId) ==
    IF \E i \in DOMAIN us : us[i].id = userId
    THEN Some(us[CHOOSE i \in DOMAIN us :
                   /\ us[i].id = userId
                   /\ \A j \in DOMAIN us : us[j].id = userId => i <= j])
    ELSE Null

RECURSIVE SumOver(_, _)
SumOver(s, i) ==
    IF i = 0 THEN 0
    ELSE SumOver(s, i - 1) + Len(s[i].favorites) + Len(s[i].shoppingList)
         + (IF s[i].avatar = DEFAULT_USERS[i].avatar THEN 0 ELSE 1)

\* What the roster holds on top of the seed roster (bounded by MaxRosterLoad).
RosterLoad == SumOver(users, Len(users))

(***************************************************************************)
(* React effects that run after a handler.                                 *)
(***************************************************************************)
\* mutant of MirrorRoster: the mirror effect is missing
MirrorRoster_Missing(us, cu) == us

\* useEffect([currentUser]): users.map(u => u.id === currentUser.id ? currentUser : u)
MirrorRoster(us, cu) ==
    [i \in DOMAIN us |-> IF us[i].id = cu.id THEN cu ELSE us[i]]

\* setCurrentUser(cu), then the mirror effect, then the users persistence effect
SetCurrentUser(cu) ==
    /\ currentUser' = cu
    /\ users' = MirrorRoster(users, cu)
    /\ storedUsers' = users'

\* setRecipes(rs), then the recipes persistence effect
SetRecipes(rs) ==
    /\ recipes' = rs
    /\ storedRecipes' = rs

\* The AudioRecorder is mounted only in the MEDIA step of the create view; when it
\* unmounts, its isRecording state and the pending onstop closure are gone.
RecorderMounted(v, step) == v = "CREATE_RECIPE" /\ step = "MEDIA"

RecorderAfter(v, step) == IF RecorderMounted(v, step) THEN recorder ELSE Null

SetView(v) ==
    /\ view' = v
    /\ recorder' = RecorderAfter(v, creationStep)

Snapshot(cu) == [favorites |-> cu.favorites, shoppingList |-> cu.shoppingList]

\* history: the active profile was mutated into cu
NoteMutation(cu) == lastMutated' = [lastMutated EXCEPT ![cu.id] = Snapshot(cu)]

(***************************************************************************)
(* Session / profile coordinator.                                          *)
(***************************************************************************)
UnknownUserId == "nobody"

UserIds == {DEFAULT_USERS[i].id : i \in DOMAIN DEFAULT_USERS}

\* mutant of handleSwitchUser: the profile is looked up in the seed roster
handleSwitchUser_FromSeed(userId) ==
    LET user == FindUser(DEFAULT_USERS, userId) IN
    /\ IF ~IsNull(user)
       THEN /\ SetCurrentUser(Val(user))
            /\ SetView("HOME")
       ELSE UNCHANGED <<profileVars, view, recorder>>
    /\ lastOp' = <<"switch", currentUser.id, userId>>
    /\ UNCHANGED <<recipeVars, selectedRecipe, servingsMultiplier, draftVars,
                   narrationCalls, imageCalls, now, lastMutated, commitLog, discardedDrafts, extVars>>

\* mutant of handleSwitchUser: the view is left where it was
handleSwitchUser_KeepsView(userId) ==
    LET user == FindUser(users, userId) IN
    /\ IF ~IsNull(user)
       THEN SetCurrentUser(Val(user))
       ELSE UNCHANGED profileVars
    /\ lastOp' = <<"switch", currentUser.id, userId>>
    /\ UNCHANGED <<recipeVars, navVars, draftVars, asyncVars, now, lastMutated,
                   commitLog, discardedDrafts, extVars>>

\* handleSwitchUser(userId), from the header menu
handleSwitchUser(userId) ==
    LET user == FindUser(users, userId) IN
    /\ IF ~IsNull(user)
       THEN /\ SetCurrentUser(Val(user))
            /\ SetView("HOME")
       ELSE UNCHANGED <<profileVars, view, recorder>>
    /\ lastOp' = <<"switch", currentUser.id, userId>>
    /\ UNCHANGED <<recipeVars, selectedRecipe, servingsMultiplier, draftVars,
                   narrationCalls, imageCalls, now, lastMutated, commitLog, discardedDrafts, extVars>>

\* "Who is cooking today?" picker of the home view: onClick={() => setCurrentUser(u)}
PickProfile(i) ==
    /\ view = "HOME"
    /\ i \in DOMAIN users
    /\ SetCurrentUser(users[i])
    /\ lastOp' = <<"switch", currentUser.id, users[i].id>>
    /\ UNCHANGED <<recipeVars, navVars, draftVars, asyncVars, now,
                   lastMutated, commitLog, discardedDrafts, extVars>>

\* handleUpdateAvatar(imageBase64)
handleUpdateAvatar(imageBase64) ==
    LET updatedUser == [currentUser EXCEPT !.avatar = imageBase64] IN
    /\ RosterLoad < MaxRosterLoad
    /\ currentUser' = updatedUser
    /\ users' = MirrorRoster([i \in DOMAIN users |->
                    IF users[i].id = updatedUser.id THEN updatedUser ELSE users[i]],
                  updatedUser)
    /\ storedUsers' = users'
    /\ lastOp' = <<"other">>
    /\ UNCHANGED <<recipeVars, navVars, draftVars, asyncVars, now,
                   lastMutated, commitLog, discardedDrafts, extVars>>

\* mutant of ToggleFavorites: the id is added whether or not it is a favorite
ToggleFavorites_AlwaysAdd(favorites, recipeId) == Append(favorites, recipeId)

\* isFav ? favorites.filter(id => id !== recipeId) : [...favorites, recipeId]
ToggleFavorites(favorites, recipeId) ==
    IF Includes(favorites, recipeId)
    THEN FilterOut(favorites, recipeId)
    ELSE Append(favorites, recipeId)

toggleFavorite(recipeId) ==
    LET newFavs == ToggleFavorites(currentUser.favorites, recipeId)
        cu == [currentUser EXCEPT !.favorites = newFavs] IN
    /\ Len(newFavs) > Len(currentUser.favorites) => RosterLoad < MaxRosterLoad
    /\ SetCurrentUser(cu)
    /\ NoteMutation(cu)
    /\ lastOp' = <<"toggleFavorite", recipeId, currentUser.favorites,
                   IF lastOp[1] = "toggleFavorite" /\ lastOp[2] = recipeId
                   THEN Some(lastOp[3]) ELSE Null>>
    /\ UNCHANGED <<recipeVars, navVars, draftVars, asyncVars, now, commitLog, discardedDrafts, extVars>>

\* favorite button of a recipe card in the home view
ToggleFavoriteHome(i) ==
    /\ view = "HOME"
    /\ i \in DOMAIN recipes
    /\ toggleFavorite(recipes[i].id)

\* favorite button of the detail view
ToggleFavoriteDetail ==
    /\ view = "RECIPE_DETAIL"
    /\ ~IsNull(selectedRecipe)
    /\ toggleFavorite(Val(selectedRecipe).id)

(***************************************************************************)
(* Navigation and serving scale.                                           *)
(***************************************************************************)
\* header logo / "Back to Kitchen" / "Browse Recipes": setView('HOME')
NavHome ==
    /\ SetView("HOME")
    /\ lastOp' = <<"other">>
    /\ UNCHANGED <<profileVars, recipeVars, selectedRecipe, servingsMultiplier,
                   draftVars, narrationCalls, imageCalls, now, lastMutated, commitLog, discardedDrafts, extVars>>

\* header cart button: setView('SHOPPING_LIST')
NavShoppingList ==
    /\ SetView("SHOPPING_LIST")
    /\ lastOp' = <<"other">>
    /\ UNCHANGED <<profileVars, recipeVars, selectedRecipe, servingsMultiplier,
                   draftVars, narrationCalls, imageCalls, now, lastMutated, commitLog, discardedDrafts, extVars>>

\* recipe card onClick
OpenRecipe(i) ==
    /\ view = "HOME"
    /\ i \in DOMAIN recipes
    /\ selectedRecipe' = Some(recipes[i])
    /\ servingsMultiplier' = 2
    /\ SetView("RECIPE_DETAIL")
    /\ lastOp' = <<"other">>
    /\ UNCHANGED <<profileVars, recipeVars, draftVars, narrationCalls, imageCalls,
                   now, lastMutated, commitLog, discardedDrafts, extVars>>

Max(a, b) == IF a >= b THEN a ELSE b

\* mutant of DecreaseServings: no floor
DecreaseServings_NoFloor ==
    /\ view = "RECIPE_DETAIL"
    /\ ~IsNull(selectedRecipe)
    /\ servingsMultiplier' = servingsMultiplier - 1
    /\ lastOp' = <<"other">>
    /\ UNCHANGED <<profileVars, recipeVars, view, selectedRecipe, draftVars,
                   asyncVars, now, lastMutated, commitLog, discardedDrafts, extVars>>

\* "-" button: setServingsMultiplier(Math.max(0.5, servingsMultiplier - 0.5))
DecreaseServings ==
    /\ view = "RECIPE_DETAIL"
    /\ ~IsNull(selectedRecipe)
    /\ servingsMultiplier' = Max(1, servingsMultiplier - 1)
    /\ lastOp' = <<"other">>
    /\ UNCHANGED <<profileVars, recipeVars, view, selectedRecipe, draftVars,
                   asyncVars, now, lastMutated, commitLog, discardedDrafts, extVars>>

\* "+" button: setServingsMultiplier(servingsMultiplier + 0.5)
IncreaseServings ==
    /\ view = "RECIPE_DETAIL"
    /\ ~IsNull(selectedRecipe)
    /\ servingsMultiplier < MaxMultiplier
    /\ servingsMultiplier' = servingsMultiplier + 1
    /\ lastOp' = <<"other">>
    /\ UNCHANGED <<profileVars, recipeVars, view, selectedRecipe, draftVars,
                   asyncVars, now, lastMutated, commitLog, discardedDrafts, extVars>>

(***************************************************************************)
(* The ingredient list of the detail view.  estimatedCost is a JavaScript   *)
(* number, i.e. the IEEE-754 double nearest to the decimal that was         *)
(* written; the model keeps the decimal in cents and computes the double    *)
(* from it: a double is its 53 significand bits, most significant first,    *)
(* and its binary exponent.                                                 *)
(***************************************************************************)
SignificandBits == 53

\* p / q as (p / q) * 2^e with 1 <= p / q < 2
RECURSIVE Normalize(_, _, _)
Normalize(p, q, e) ==
    IF p < q THEN Normalize(2 * p, q, e - 1)
    ELSE IF p >= 2 * q THEN Normalize(p, 2 * q, e + 1)
    ELSE [p |-> p, q |-> q, e |-> e]

\* 2^k modulo q
RECURSIVE Pow2Mod(_, _)
Pow2Mod(k, q) ==
    IF k = 0 THEN 1 % q
    ELSE LET half == Pow2Mod(k \div 2, q)
             sq   == (half * half) % q IN
         IF k % 2 = 1 THEN (2 * sq) % q ELSE sq

\* the remainder of r / q (r < q) after k binary digits
RemAfter(r, q, k) == (r * Pow2Mod(k, q)) % q

\* the first n binary digits of r / q (r < q), and the remainder after them
Expand(r, q, n) ==
    [bits |-> [k \in 1..n |-> IF 2 * RemAfter(r, q, k - 1) >= q THEN 1 ELSE 0],
     rem  |-> RemAfter(r, q, n)]

\* bits + 1; one bit longer when every bit was 1
Inc(bits) ==
    LET zeros == {k \in DOMAIN bits : bits[k] = 0} IN
    IF zeros = {} THEN <<1>> \o [k \in DOMAIN bits |-> 0]
    ELSE LET j == CHOOSE k \in zeros : \A l \in zeros : l <= k IN
         [k \in DOMAIN bits |-> IF k < j THEN bits[k] ELSE IF k = j THEN 1 ELSE 0]

AllZero(bits) == \A k \in DOMAIN bits : bits[k] = 0

\* round to nearest, ties to even: kept are the bits that stay, dropped the bits
\* behind them, sticky tells whether anything non-zero lies behind dropped;
\* e is the exponent of the first kept bit
RoundNearestEven(kept, dropped, sticky, e) ==
    LET half  == dropped # <<>> /\ dropped[1] = 1
        above == half /\ (sticky \/ ~AllZero(Tail(dropped)))
        tie   == half /\ ~above
        up    == above \/ (tie /\ kept[Len(kept)] = 1)
        bits  == IF up THEN Inc(kept) ELSE kept IN
    IF Len(bits) > Len(kept)
    THEN [bits |-> SubSeq(bits, 1, Len(kept)), e |-> e + 1]
    ELSE [bits |-> bits, e |-> e]

\* the double nearest to p / q (p > 0)
ToDouble(p, q) ==
    LET nz == Normalize(p, q, 0)
        ex == Expand(nz.p - nz.q, nz.q, SignificandBits) IN
    RoundNearestEven(<<1>> \o SubSeq(ex.bits, 1, SignificandBits - 1),
                     <<ex.bits[SignificandBits]>>, ex.rem # 0, nz.e)

\* binary digits of a natural number, none for 0
RECURSIVE Binary(_)
Binary(n) == IF n = 0 THEN <<>> ELSE Binary(n \div 2) \o <<n % 2>>

\* bits * h as a bit sequence: schoolbook multiplication from the last bit, carry[k]
\* is what the last k bits carry over
TimesSmall(bits, h) ==
    LET n == Len(bits)
        carry[k \in 0..n] ==
            IF k = 0 THEN 0 ELSE (bits[n - k + 1] * h + carry[k - 1]) \div 2 IN
    Binary(carry[n]) \o [k \in 1..n |-> (bits[k] * h + carry[n - k]) % 2]

\* d * (h / 2) in double arithmetic, h the multiplier in halves
TimesHalves(d, h) ==
    LET product == TimesSmall(d.bits, h)
        grown   == Len(product) - SignificandBits IN
    RoundNearestEven(SubSeq(product, 1, SignificandBits),
                     SubSeq(product, SignificandBits + 1, Len(product)), FALSE,
                     d.e + grown - 1)

\* -1, 0, 1 as the first bit sequence is below, equal to or above the second
CompareBits(a, b) ==
    LET differ == {k \in DOMAIN a : a[k] # b[k]} IN
    IF differ = {} THEN 0
    ELSE LET j == CHOOSE k \in differ : \A l \in differ : k <= l IN
         IF a[j] = 1 THEN 1 ELSE -1

\* -1, 0, 1 as the double d is below, equal to or above p / q (p > 0)
CompareToRational(d, p, q) ==
    LET nz == Normalize(p, q, 0)
        ex == Expand(nz.p - nz.q, nz.q, SignificandBits - 1)
        c  == CompareBits(Tail(d.bits), ex.bits) IN
    IF d.e # nz.e THEN (IF d.e > nz.e THEN 1 ELSE -1)
    ELSE IF c # 0 THEN c
    ELSE IF ex.rem # 0 THEN -1 ELSE 0

\* (ing.estimatedCost * servingsMultiplier).toFixed(2), in cents: the integer n
\* for which n / 100 is nearest to the double product, the larger n when two are
\* equally near.  The product is within 2^-50 of cents * h / 200, so n is decided
\* by the decimal unless cents * h / 2 lies halfway between two integers; there it
\* is decided by the side of the decimal on which the double lies.
ToFixed2(cents, h) ==
    IF cents = 0 THEN 0
    ELSE IF (cents * h) % 2 = 0 THEN (cents * h) \div 2
    ELSE LET product == TimesHalves(ToDouble(cents, 100), h) IN
         IF CompareToRational(product, cents * h, 200) >= 0
         THEN (cents * h + 1) \div 2
         ELSE (cents * h - 1) \div 2

\* `${multiplier}`: the multiplier as printed, e.g. 3 halves -> "1.5"
MultiplierText(m) == <<m \div 2, IF m % 2 = 1 THEN ".5" ELSE "">>

\* one <li> of the ingredient list: amount with its scale note, item, cost in cents
IngredientLine(ing, m) ==
    [amount |-> <<ing.amount>> \o
                (IF m # 2 THEN <<"(x", MultiplierText(m), ")">> ELSE <<>>),
     item   |-> ing.item,
     cost   |-> ToFixed2(ing.estimatedCost, m)]

\* selectedRecipe.ingredients.map(ing => <li> ... </li>) of renderDetail
IngredientList ==
    IF view = "RECIPE_DETAIL" /\ ~IsNull(selectedRecipe)
    THEN [k \in DOMAIN Val(selectedRecipe).ingredients |->
            IngredientLine(Val(selectedRecipe).ingredients[k], servingsMultiplier)]
    ELSE <<>>

(***************************************************************************)
(* Shopping list.                                                          *)
(***************************************************************************)

\* `${ing.item} ${multiplier > 1 ? `(x${multiplier})` : ''}`
ShoppingLabel(item, multiplier) ==
    item \o <<" ">> \o
    (IF multiplier > 2 THEN <<"(x", MultiplierText(multiplier), ")">> ELSE <<>>)

\* `shop-${Date.now()}-${Math.random().toString(36).substr(2, 9)}`
\* Ids are only ever compared for equality.  The random suffixes drawn for the
\* items of one call are taken to be pairwise different (a collision has
\* probability about 36^-9), so the suffix of the k-th draw is written k.
ShoppingId(t, k) == <<"shop", t, k>>

\* mutant of NewShoppingItems: the ingredient's own id is kept
NewShoppingItems_KeepId(ingredients, multiplier, t) ==
    [k \in DOMAIN ingredients |->
        [ingredients[k] EXCEPT !.item = ShoppingLabel(ingredients[k].item, multiplier),
                               !.checked = FALSE]]

\* ingredients.map(ing => ({...ing, item: ..., id: ..., checked: false}))
NewShoppingItems(ingredients, multiplier, t) ==
    [k \in DOMAIN ingredients |->
        [ingredients[k] EXCEPT !.item = ShoppingLabel(ingredients[k].item, multiplier),
                               !.id = ShoppingId(t, k),
                               !.checked = FALSE]]

ClockRuns == now < Epoch + MaxClockTicks

\* mutant of AppendItems: the new items are put in front
AppendItems_InFront(shoppingList, newItems) == newItems \o shoppingList

\* [...prev.shoppingList, ...newItems]
AppendItems(shoppingList, newItems) == shoppingList \o newItems

\* addToShoppingList(selectedRecipe.ingredients)
addToShoppingList ==
    /\ view = "RECIPE_DETAIL"
    /\ ~IsNull(selectedRecipe)
    /\ ClockRuns
    /\ LET ingredients == Val(selectedRecipe).ingredients IN
       /\ RosterLoad + Len(ingredients) <= MaxRosterLoad
       /\ LET newItems == NewShoppingItems(ingredients, servingsMultiplier, now)
              cu == [currentUser EXCEPT !.shoppingList = AppendItems(@, newItems)] IN
          /\ SetCurrentUser(cu)
          /\ NoteMutation(cu)
          /\ lastOp' = <<"other">>
    /\ now' = now + 1
    /\ UNCHANGED <<recipeVars, navVars, draftVars, asyncVars, commitLog, discardedDrafts, extVars>>

\* shoppingList.map(i => i.id === itemId ? {...i, checked: !i.checked} : i)
ToggleChecked(list, itemId) ==
    [k \in DOMAIN list |->
        IF list[k].id = itemId THEN [list[k] EXCEPT !.checked = ~@] ELSE list[k]]

\* checkbox of a shopping-list row
toggleChecked(k) ==
    /\ view = "SHOPPING_LIST"
    /\ k \in DOMAIN currentUser.shoppingList
    /\ LET itemId == currentUser.shoppingList[k].id
           cu == [currentUser EXCEPT !.shoppingList = ToggleChecked(@, itemId)] IN
       /\ SetCurrentUser(cu)
       /\ NoteMutation(cu)
       /\ lastOp' = <<"other">>
    /\ UNCHANGED <<recipeVars, navVars, draftVars, asyncVars, now, commitLog, discardedDrafts, extVars>>

\* remove button of a shopping-list row
removeItem(k) ==
    /\ view = "SHOPPING_LIST"
    /\ k \in DOMAIN currentUser.shoppingList
    /\ LET itemId == currentUser.shoppingList[k].id
           cu == [currentUser EXCEPT !.shoppingList = FilterOutId(@, itemId)] IN
       /\ SetCurrentUser(cu)
       /\ NoteMutation(cu)
       /\ lastOp' = <<"other">>
    /\ UNCHANGED <<recipeVars, navVars, draftVars, asyncVars, now, commitLog, discardedDrafts, extVars>>

\* "Clear" button, rendered while the list is not empty
clearAll ==
    /\ view = "SHOPPING_LIST"
    /\ Len(currentUser.shoppingList) > 0
    /\ LET cu == [currentUser EXCEPT !.shoppingList = <<>>] IN
       /\ SetCurrentUser(cu)
       /\ NoteMutation(cu)
       /\ lastOp' = <<"other">>
    /\ UNCHANGED <<recipeVars, navVars, draftVars, asyncVars, now, commitLog, discardedDrafts, extVars>>

(***************************************************************************)
(* Draft orchestrator.                                                     *)
(***************************************************************************)
\* "Create New Masterpiece", shown to the administrator in the home view
OpenCreate ==
    /\ view = "HOME"
    /\ currentUser.role = ADMIN
    /\ creationStep' = "MEDIA"
    /\ view' = "CREATE_RECIPE"
    /\ recorder' = Null
    /\ lastOp' = <<"other">>
    /\ UNCHANGED <<profileVars, recipeVars, selectedRecipe, servingsMultiplier,
                   isGenerating, draftRecipe, capturedImage, narrationCalls,
                   imageCalls, now, lastMutated, commitLog, discardedDrafts, extVars>>

\* "<- Cancel" of the create view: setDraftRecipe(null); setView('HOME')
Cancel ==
    /\ view = "CREATE_RECIPE"
    /\ draftRecipe' = Null
    /\ SetView("HOME")
    /\ lastOp' = <<"other">>
    /\ discardedDrafts' = discardedDrafts \cup {draftRecipe[k].id : k \in DOMAIN draftRecipe}
    /\ UNCHANGED <<profileVars, recipeVars, selectedRecipe, servingsMultiplier,
                   isGenerating, creationStep, capturedImage, narrationCalls,
                   imageCalls, now, lastMutated, commitLog, extVars>>

Photos == { <<"photo">> }

\* WebcamCapture onCapture of the MEDIA step: setCapturedImage(img)
CapturePhoto(img) ==
    /\ RecorderMounted(view, creationStep)
    /\ capturedImage' = Some(img)
    /\ lastOp' = <<"other">>
    /\ UNCHANGED <<profileVars, recipeVars, navVars, isGenerating, creationStep,
                   draftRecipe, asyncVars, now, lastMutated, commitLog, discardedDrafts, extVars>>

\* WebcamCapture onRetake: setCapturedImage(null)
RetakePhoto ==
    /\ RecorderMounted(view, creationStep)
    /\ ~IsNull(capturedImage)
    /\ capturedImage' = Null
    /\ lastOp' = <<"other">>
    /\ UNCHANGED <<profileVars, recipeVars, navVars, isGenerating, creationStep,
                   draftRecipe, asyncVars, now, lastMutated, commitLog, discardedDrafts, extVars>>

\* AudioRecorder.startRecording: the onstop callback it installs closes over the
\* onRecordingComplete prop of this render, i.e. over the handleGenerateRecipe
\* that sees the capturedImage and currentUser of this render.
StartRecording ==
    /\ RecorderMounted(view, creationStep)
    /\ ~isGenerating
    /\ IsNull(recorder)
    /\ recorder' = Some([capturedImage |-> capturedImage, authorId |-> currentUser.id])
    /\ lastOp' = <<"other">>
    /\ UNCHANGED <<profileVars, recipeVars, navVars, draftVars, narrationCalls,
                   imageCalls, now, lastMutated, commitLog, discardedDrafts, extVars>>

\* AudioRecorder.stopRecording -> onstop -> handleGenerateRecipe(blob), up to the
\* await of generateRecipeFromMedia
StopRecording ==
    /\ RecorderMounted(view, creationStep)
    /\ ~IsNull(recorder)
    /\ Len(narrationCalls) < MaxInFlight
    /\ isGenerating' = TRUE
    /\ narrationCalls' = Append(narrationCalls, Val(recorder))
    /\ recorder' = Null
    /\ lastOp' = <<"other">>
    /\ UNCHANGED <<profileVars, recipeVars, navVars, creationStep, draftRecipe,
                   capturedImage, imageCalls, now, lastMutated, commitLog, discardedDrafts, extVars>>

RemoveAt(s, i) == SubSeq(s, 1, i - 1) \o SubSeq(s, i + 1, Len(s))

\* estimatedCost values (in cents) the Gateway may give an ingredient
Costs == {25, 35}

\* Answers of the Gateway that differ in the cost of the ingredient only.
CostResponses ==
    [title : {"Soup"}, description : {""},
     ingredients : { << [item |-> <<"Salt">>, amount |-> "1 tsp", estimatedCost |-> c] >> :
                     c \in Costs },
     instructions : { <<"boil">> },
     difficulty : {"Easy"}]

\* What the Gateway can answer: title and description may be missing or empty.
GenResponses ==
    [title : {"", "Soup"}, description : {"", "warm"},
     ingredients : { << [item |-> <<"Salt">>, amount |-> "1 tsp", estimatedCost |-> 10] >> },
     instructions : { <<"boil">> },
     difficulty : {"Easy"}]

\* the newRecipe object of handleGenerateRecipe
NewRecipe(genData, call, t) ==
    [id |-> <<"rec", t>>,
     title |-> genData.title,
     description |-> genData.description,
     ingredients |-> [idx \in DOMAIN genData.ingredients |->
                        Ingredient(<<"ing", t, idx>>, genData.ingredients[idx].item,
                                   genData.ingredients[idx].amount,
                                   genData.ingredients[idx].estimatedCost)],
     instructions |-> genData.instructions,
     instructionThumbnails |-> Null,
     imageUrl |-> call.capturedImage,
     videoUrl |-> Null,
     authorId |-> call.authorId,
     createdAt |-> t,
     difficulty |-> genData.difficulty]

\* !capturedImage && newRecipe.title && newRecipe.description
WantsHeroImage(call, newRecipe) ==
    IsNull(call.capturedImage) /\ newRecipe.title # "" /\ newRecipe.description # ""

\* generateRecipeFromMedia resolved: the rest of the try block, then finally
NarrationSucceeds(i, genData) ==
    /\ i \in DOMAIN narrationCalls
    /\ ClockRuns
    /\ LET call == narrationCalls[i]
           newRecipe == NewRecipe(genData, call, now) IN
       /\ draftRecipe' = Some(newRecipe)
       /\ IF WantsHeroImage(call, newRecipe)
          THEN /\ Len(imageCalls) < MaxInFlight
               /\ imageCalls' = Append(imageCalls, [draftId |-> newRecipe.id])
          ELSE imageCalls' = imageCalls
    /\ creationStep' = "REVIEW"
    /\ isGenerating' = FALSE
    /\ narrationCalls' = RemoveAt(narrationCalls, i)
    /\ recorder' = Null
    /\ now' = now + 1
    /\ lastOp' = <<"narrationSucceeded">>
    /\ UNCHANGED <<profileVars, recipeVars, navVars, capturedImage,
                   lastMutated, commitLog, discardedDrafts, extVars>>

\* mutant of NarrationFails: the busy flag is not cleared (no finally)
NarrationFails_StaysBusy(i) ==
    /\ i \in DOMAIN narrationCalls
    /\ narrationCalls' = RemoveAt(narrationCalls, i)
    /\ lastOp' = <<"narrationFailed">>
    /\ UNCHANGED <<profileVars, recipeVars, navVars, draftVars, recorder, imageCalls,
                   now, lastMutated, commitLog, discardedDrafts, extVars>>

\* generateRecipeFromMedia rejected, or threw on an empty / unparsable answer, or
\* the answer has no ingredients array (genData.ingredients.map throws): catch, finally
NarrationFails(i) ==
    /\ i \in DOMAIN narrationCalls
    /\ isGenerating' = FALSE
    /\ narrationCalls' = RemoveAt(narrationCalls, i)
    /\ lastOp' = <<"narrationFailed">>
    /\ UNCHANGED <<profileVars, recipeVars, navVars, creationStep, draftRecipe,
                   capturedImage, recorder, imageCalls, now, lastMutated, commitLog, discardedDrafts, extVars>>

\* the data URL generateRecipeImage returns for the draft it was asked for
HeroImageFor(draftId) == <<"ai-image", draftId>>

\* .then(url => setDraftRecipe(prev => prev ? ({ ...prev, imageUrl: url }) : null))
AttachHeroImage(prev, url) ==
    IF ~IsNull(prev) THEN Some([Val(prev) EXCEPT !.imageUrl = Some(url)]) ELSE Null

ImageResolves(j) ==
    /\ j \in DOMAIN imageCalls
    /\ draftRecipe' = AttachHeroImage(draftRecipe, HeroImageFor(imageCalls[j].draftId))
    /\ imageCalls' = RemoveAt(imageCalls, j)
    /\ lastOp' = <<"imageResolved", imageCalls[j].draftId>>
    /\ UNCHANGED <<profileVars, recipeVars, navVars, isGenerating, creationStep,
                   capturedImage, recorder, narrationCalls, now, lastMutated, commitLog, discardedDrafts, extVars>>

\* generateRecipeImage rejected ("No image generated"): nothing is attached
ImageFails(j) ==
    /\ j \in DOMAIN imageCalls
    /\ imageCalls' = RemoveAt(imageCalls, j)
    /\ lastOp' = <<"other">>
    /\ UNCHANGED <<profileVars, recipeVars, navVars, draftVars, recorder,
                   narrationCalls, now, lastMutated, commitLog, discardedDrafts, extVars>>

ReviewShown == view = "CREATE_RECIPE" /\ creationStep = "REVIEW" /\ ~IsNull(draftRecipe)

TypedTitles == {"", "Stew"}

\* title input onChange: setDraftRecipe({...draftRecipe, title: e.target.value})
EditTitle(title) ==
    /\ ReviewShown
    /\ draftRecipe' = Some([Val(draftRecipe) EXCEPT !.title = title])
    /\ lastOp' = <<"other">>
    /\ UNCHANGED <<profileVars, recipeVars, navVars, isGenerating, creationStep,
                   capturedImage, asyncVars, now, lastMutated, commitLog, discardedDrafts, extVars>>

\* mutant of Discard: the Draft is kept while its hero image is still awaited
Discard_KeepsDraftWhileBusy ==
    /\ ReviewShown
    /\ creationStep' = "MEDIA"
    /\ draftRecipe' = IF imageCalls = <<>> THEN Null ELSE draftRecipe
    /\ lastOp' = <<"discard", Val(draftRecipe).id>>
    /\ discardedDrafts' = discardedDrafts \cup {Val(draftRecipe).id}
    /\ UNCHANGED <<profileVars, recipeVars, navVars, isGenerating, capturedImage,
                   asyncVars, now, lastMutated, commitLog, extVars>>

\* "Discard": setCreationStep('MEDIA'); setDraftRecipe(null)
Discard ==
    /\ ReviewShown
    /\ creationStep' = "MEDIA"
    /\ draftRecipe' = Null
    /\ lastOp' = <<"discard", Val(draftRecipe).id>>
    /\ discardedDrafts' = discardedDrafts \cup {Val(draftRecipe).id}
    /\ UNCHANGED <<profileVars, recipeVars, navVars, isGenerating, capturedImage,
                   asyncVars, now, lastMutated, commitLog, extVars>>

\* mutant of Prepend: the recipe is put behind the stored ones
Prepend_AtEnd(recipe, prev) == prev \o <<recipe>>

\* [draftRecipe as Recipe, ...prev]
Prepend(recipe, prev) == <<recipe>> \o prev

\* mutant of CanSave: the title is not looked at
CanSave_AnyTitle(draft) == ~IsNull(draft)

\* draftRecipe && draftRecipe.title
CanSave(draft) == ~IsNull(draft) /\ Val(draft).title # ""

\* "Save Recipe": handleSaveRecipe()
handleSaveRecipe ==
    /\ ReviewShown
    /\ IF CanSave(draftRecipe)
       THEN /\ SetRecipes(Prepend(Val(draftRecipe), recipes))
            /\ draftRecipe' = Null
            /\ capturedImage' = Null
            /\ creationStep' = "MEDIA"
            /\ view' = "HOME"
            /\ recorder' = Null
            /\ commitLog' = <<Val(draftRecipe).id>> \o commitLog
            /\ lastOp' = <<"commit">>
       ELSE /\ UNCHANGED <<recipeVars, draftRecipe, capturedImage, creationStep,
                           view, recorder, commitLog>>
            /\ lastOp' = <<"saveRejected">>
    /\ UNCHANGED <<profileVars, selectedRecipe, servingsMultiplier, isGenerating,
                   narrationCalls, imageCalls, now, lastMutated, discardedDrafts, extVars>>

(***************************************************************************)
(* Video synthesis: handleGenerateVideo (Draft), handleGenerateVideoFor-   *)
(* ActiveRecipe (detail view) and generateRecipeVideo.  A call in flight   *)
(* is [kind, snap, stage]: snap is the draftRecipe or selectedRecipe of    *)
(* the render whose handler was clicked; stage is                          *)
(*   "key"      awaiting aistudio.hasSelectedApiKey / openSelectKey,       *)
(*   "start"    isGenerating set, generateVideos not answered yet,         *)
(*   "polling"  in the while (!operation.done) loop,                       *)
(*   "done"     operation.done seen, result not fetched yet.               *)
(* Without window.aistudio the "key" stage is passed at once.              *)
(***************************************************************************)
VideoCall(kind, snap) ==
    [kind |-> kind, snap |-> snap, stage |-> "key", turn |-> 0]

\* {!draftRecipe.videoUrl && <Button ...>Generate Cinematic Video</Button>}
DraftVideoOffered == ReviewShown /\ IsNull(Val(draftRecipe).videoUrl)

\* mutant of GenerateVideoOffered: the button is rendered whatever the recipe holds
GenerateVideoOffered_Always == view = "RECIPE_DETAIL" /\ ~IsNull(selectedRecipe)

\* {selectedRecipe.videoUrl ? <video .../> : ... <Button ...>Generate Video</Button>}
GenerateVideoOffered ==
    /\ view = "RECIPE_DETAIL"
    /\ ~IsNull(selectedRecipe)
    /\ IsNull(Val(selectedRecipe).videoUrl)

\* {!selectedRecipe.instructionThumbnails && <Button ...>Visualize Steps</Button>}
VisualizeStepsOffered ==
    /\ view = "RECIPE_DETAIL"
    /\ ~IsNull(selectedRecipe)
    /\ IsNull(Val(selectedRecipe).instructionThumbnails)

\* "Generate Cinematic Video" of the review step: handleGenerateVideo up to its
\* first await; the button is shown while the Draft has no videoUrl
ClickGenerateVideo ==
    /\ DraftVideoOffered
    /\ ~isGenerating
    /\ enrichStarted < MaxEnrichCalls
    /\ IF Val(draftRecipe).title # ""
       THEN /\ videoCalls' = Append(videoCalls, VideoCall("draft", Val(draftRecipe)))
            /\ enrichStarted' = enrichStarted + 1
            /\ lastOp' = <<"videoRequested", "draft", Val(draftRecipe).id>>
       ELSE /\ UNCHANGED <<videoCalls, enrichStarted>>
            /\ lastOp' = <<"videoIgnored">>
    /\ UNCHANGED <<profileVars, recipeVars, navVars, draftVars, asyncVars, now,
                   thumbCalls, askVars, cookVars, lastMutated, commitLog, discardedDrafts>>

\* "Generate Video" of the detail view: handleGenerateVideoForActiveRecipe up to its
\* first await; the button is shown while the displayed recipe has no videoUrl
ClickGenerateVideoForActiveRecipe ==
    /\ GenerateVideoOffered
    /\ ~isGenerating
    /\ enrichStarted < MaxEnrichCalls
    /\ videoCalls' = Append(videoCalls, VideoCall("recipe", Val(selectedRecipe)))
    /\ enrichStarted' = enrichStarted + 1
    /\ lastOp' = <<"videoRequested", "recipe", Val(selectedRecipe).id>>
    /\ UNCHANGED <<profileVars, recipeVars, navVars, draftVars, asyncVars, now,
                   thumbCalls, askVars, cookVars, lastMutated, commitLog, discardedDrafts>>

\* a key is selected (or gets selected): setIsGenerating(true), generateRecipeVideo
KeyCheckPasses(v) ==
    /\ v \in DOMAIN videoCalls
    /\ videoCalls[v].stage = "key"
    /\ isGenerating' = TRUE
    /\ videoCalls' = [videoCalls EXCEPT ![v].stage = "start"]
    /\ lastOp' = <<"other">>
    /\ UNCHANGED <<profileVars, recipeVars, navVars, creationStep, draftRecipe,
                   capturedImage, asyncVars, now, thumbCalls, askVars, enrichStarted,
                   cookVars, lastMutated, commitLog, discardedDrafts>>

\* openSelectKey() rejected: catch (e) { return; }
KeyCheckAborts(v) ==
    /\ v \in DOMAIN videoCalls
    /\ videoCalls[v].stage = "key"
    /\ videoCalls' = RemoveAt(videoCalls, v)
    /\ lastOp' = <<"other">>
    /\ UNCHANGED <<profileVars, recipeVars, navVars, draftVars, asyncVars, now,
                   thumbCalls, askVars, enrichStarted, cookVars, lastMutated, commitLog, discardedDrafts>>

\* ai.models.generateVideos answered with an operation, done or not
VideoSubmitted(v, done) ==
    /\ v \in DOMAIN videoCalls
    /\ videoCalls[v].stage = "start"
    /\ videoCalls' = [videoCalls EXCEPT ![v].stage = IF done THEN "done" ELSE "polling"]
    /\ lastOp' = <<"other">>
    /\ UNCHANGED <<profileVars, recipeVars, navVars, draftVars, asyncVars, now,
                   thumbCalls, askVars, enrichStarted, cookVars, lastMutated, commitLog, discardedDrafts>>

\* one turn of while (!operation.done): wait 5 s, getVideosOperation; the loop has
\* no other exit, and turn is the parity of the turns taken
VideoPolled(v, done) ==
    /\ v \in DOMAIN videoCalls
    /\ videoCalls[v].stage = "polling"
    /\ videoCalls' = [videoCalls EXCEPT ![v].stage = IF done THEN "done" ELSE "polling",
                                        ![v].turn = 1 - @]
    /\ lastOp' = <<"other">>
    /\ UNCHANGED <<profileVars, recipeVars, navVars, draftVars, asyncVars, now,
                   thumbCalls, askVars, enrichStarted, cookVars, lastMutated, commitLog, discardedDrafts>>

\* URL.createObjectURL(videoBlob) of the video generated for snap
VideoUrlFor(snap) == <<"video", snap.id>>

\* setDraftRecipe(prev => prev ? ({ ...prev, videoUrl }) : null)
AttachVideo(prev, videoUrl) ==
    IF ~IsNull(prev) THEN Some([Val(prev) EXCEPT !.videoUrl = Some(videoUrl)]) ELSE Null

\* mutant of ReplaceById: every entry is replaced
ReplaceById_All(rs, updatedRecipe) == [i \in DOMAIN rs |-> updatedRecipe]

\* prev.map(r => r.id === updatedRecipe.id ? updatedRecipe : r)
ReplaceById(rs, updatedRecipe) ==
    [i \in DOMAIN rs |-> IF rs[i].id = updatedRecipe.id THEN updatedRecipe ELSE rs[i]]

\* setSelectedRecipe(updatedRecipe); setRecipes(prev => prev.map(...))
WriteThrough(updatedRecipe) ==
    /\ selectedRecipe' = Some(updatedRecipe)
    /\ SetRecipes(ReplaceById(recipes, updatedRecipe))

\* generateRecipeVideo resolved: the rest of the try block, then finally
VideoSucceeds(v) ==
    /\ v \in DOMAIN videoCalls
    /\ videoCalls[v].stage = "done"
    /\ LET call == videoCalls[v]
           videoUrl == VideoUrlFor(call.snap) IN
       /\ IF call.kind = "draft"
          THEN /\ draftRecipe' = AttachVideo(draftRecipe, videoUrl)
               /\ UNCHANGED <<recipeVars, selectedRecipe>>
          ELSE /\ WriteThrough([call.snap EXCEPT !.videoUrl = Some(videoUrl)])
               /\ draftRecipe' = draftRecipe
       /\ lastOp' = <<"videoSucceeded", call.kind, call.snap.id>>
    /\ isGenerating' = FALSE
    /\ videoCalls' = RemoveAt(videoCalls, v)
    /\ UNCHANGED <<profileVars, view, servingsMultiplier, creationStep, capturedImage,
                   asyncVars, now, thumbCalls, askVars, enrichStarted, cookVars, lastMutated, commitLog,
                   discardedDrafts>>

\* mutant of VideoFails: a failed call marks the Draft or the displayed recipe
VideoFails_MarksFailed(v) ==
    /\ v \in DOMAIN videoCalls
    /\ videoCalls[v].stage \in {"start", "polling", "done"}
    /\ LET call == videoCalls[v] IN
       /\ IF call.kind = "draft"
          THEN /\ draftRecipe' = AttachVideo(draftRecipe, <<"failed">>)
               /\ selectedRecipe' = selectedRecipe
          ELSE /\ selectedRecipe' = AttachVideo(selectedRecipe, <<"failed">>)
               /\ draftRecipe' = draftRecipe
       /\ lastOp' = <<"videoFailed", call.kind, call.snap.id>>
    /\ isGenerating' = FALSE
    /\ videoCalls' = RemoveAt(videoCalls, v)
    /\ UNCHANGED <<profileVars, recipeVars, view, servingsMultiplier, creationStep,
                   capturedImage, asyncVars, now, thumbCalls, askVars, enrichStarted, cookVars, lastMutated,
                   commitLog, discardedDrafts>>

\* generateRecipeVideo rejected (generateVideos or a poll failed, no uri in the
\* response, the download failed): catch, finally
VideoFails(v) ==
    /\ v \in DOMAIN videoCalls
    /\ videoCalls[v].stage \in {"start", "polling", "done"}
    /\ isGenerating' = FALSE
    /\ lastOp' = <<"videoFailed", videoCalls[v].kind, videoCalls[v].snap.id>>
    /\ videoCalls' = RemoveAt(videoCalls, v)
    /\ UNCHANGED <<profileVars, recipeVars, navVars, creationStep, draftRecipe,
                   capturedImage, asyncVars, now, thumbCalls, askVars, enrichStarted, cookVars, lastMutated,
                   commitLog, discardedDrafts>>

\* what the Gateway and the key dialog do with the video calls in flight
VideoAnswers ==
    \/ \E v \in DOMAIN videoCalls : KeyCheckPasses(v)
    \/ \E v \in DOMAIN videoCalls : KeyCheckAborts(v)
    \/ \E v \in DOMAIN videoCalls : \E done \in BOOLEAN : VideoSubmitted(v, done)
    \/ \E v \in DOMAIN videoCalls : \E done \in BOOLEAN : VideoPolled(v, done)
    \/ \E v \in DOMAIN videoCalls : VideoSucceeds(v)
    \/ \E v \in DOMAIN videoCalls : VideoFails(v)

(***************************************************************************)
(* Step thumbnails: handleVisualizeSteps and generateInstructionThumbnails.*)
(* A batch in flight is [snap, arrivals]: snap is the selectedRecipe of    *)
(* the render whose handler was clicked, arrivals lists, in the order of   *)
(* completion, the per-step promises that have resolved as                 *)
(* [index, value]; value is <<>> for the empty string "".                  *)
(***************************************************************************)
\* "Visualize Steps": handleVisualizeSteps up to its await; the button is shown
\* while the displayed recipe has no instructionThumbnails
ClickVisualizeSteps ==
    /\ VisualizeStepsOffered
    /\ ~isGenerating
    /\ enrichStarted < MaxEnrichCalls
    /\ isGenerating' = TRUE
    /\ thumbCalls' = Append(thumbCalls, [snap |-> Val(selectedRecipe), arrivals |-> <<>>])
    /\ enrichStarted' = enrichStarted + 1
    /\ lastOp' = <<"thumbnailsRequested", Val(selectedRecipe).id>>
    /\ UNCHANGED <<profileVars, recipeVars, navVars, creationStep, draftRecipe,
                   capturedImage, asyncVars, now, videoCalls, askVars, cookVars, lastMutated,
                   commitLog, discardedDrafts>>

\* the indexes whose promise has not resolved yet
PendingSteps(call) ==
    {i \in DOMAIN call.snap.instructions :
        \A k \in DOMAIN call.arrivals : call.arrivals[k].index # i}

\* what the async function of one instruction returns: the data URL of the image
\* made for it, or "" when the request threw or the response held no image
ThumbnailFor(inst, ok) == IF ok THEN <<"thumb", inst>> ELSE <<>>

\* mutant of ThumbnailSettled: a failed step gives up the steps still pending
ThumbnailSettled_FailsTheRest(call, i, ok) ==
    IF ok
    THEN Append(call.arrivals, [index |-> i, value |-> ThumbnailFor(call.snap.instructions[i], ok)])
    ELSE call.arrivals \o
         [k \in 1..Cardinality(PendingSteps(call)) |->
            [index |-> CHOOSE j \in PendingSteps(call) :
                          Cardinality({m \in PendingSteps(call) : m < j}) = k - 1,
             value |-> <<>>]]

\* the promise of instruction i resolves (it never rejects: try / catch)
ThumbnailSettled(call, i, ok) ==
    Append(call.arrivals, [index |-> i, value |-> ThumbnailFor(call.snap.instructions[i], ok)])

ThumbnailResolves(t, i, ok) ==
    /\ t \in DOMAIN thumbCalls
    /\ i \in PendingSteps(thumbCalls[t])
    /\ thumbCalls' = [thumbCalls EXCEPT ![t].arrivals = ThumbnailSettled(thumbCalls[t], i, ok)]
    /\ lastOp' = <<"other">>
    /\ UNCHANGED <<profileVars, recipeVars, navVars, draftVars, asyncVars, now,
                   videoCalls, askVars, enrichStarted, cookVars, lastMutated, commitLog, discardedDrafts>>

\* mutant of PromiseAll: the results are listed in the order of completion
PromiseAll_InArrivalOrder(arrivals, n) == [k \in 1..n |-> arrivals[k].value]

\* Promise.all(promises): the values, in the order of the promises
PromiseAll(arrivals, n) ==
    [i \in 1..n |->
        arrivals[CHOOSE k \in DOMAIN arrivals : arrivals[k].index = i].value]

ArrivalOrder(arrivals) == [k \in DOMAIN arrivals |-> arrivals[k].index]

\* Promise.all resolved: the rest of the try block of handleVisualizeSteps, finally
ThumbnailsJoined(t) ==
    /\ t \in DOMAIN thumbCalls
    /\ PendingSteps(thumbCalls[t]) = {}
    /\ LET call == thumbCalls[t]
           thumbnails == PromiseAll(call.arrivals, Len(call.snap.instructions)) IN
       /\ WriteThrough([call.snap EXCEPT !.instructionThumbnails = Some(thumbnails)])
       /\ lastOp' = <<"thumbnailsAttached", call.snap.id, ArrivalOrder(call.arrivals)>>
    /\ isGenerating' = FALSE
    /\ thumbCalls' = RemoveAt(thumbCalls, t)
    /\ UNCHANGED <<profileVars, view, servingsMultiplier, creationStep, draftRecipe,
                   capturedImage, asyncVars, now, videoCalls, askVars, enrichStarted, cookVars, lastMutated,
                   commitLog, discardedDrafts>>

\* generateInstructionThumbnails itself rejected (getAI() threw before any step
\* was started): catch, finally
VisualizeFails(t) ==
    /\ t \in DOMAIN thumbCalls
    /\ thumbCalls[t].arrivals = <<>>
    /\ isGenerating' = FALSE
    /\ thumbCalls' = RemoveAt(thumbCalls, t)
    /\ lastOp' = <<"visualizeFailed", thumbCalls[t].snap.id>>
    /\ UNCHANGED <<profileVars, recipeVars, navVars, creationStep, draftRecipe,
                   capturedImage, asyncVars, now, videoCalls, askVars, enrichStarted, cookVars, lastMutated,
                   commitLog, discardedDrafts>>

ThumbnailAnswers ==
    \/ \E t \in DOMAIN thumbCalls : \E i \in DOMAIN thumbCalls[t].snap.instructions :
          \E ok \in BOOLEAN : ThumbnailResolves(t, i, ok)
    \/ \E t \in DOMAIN thumbCalls : ThumbnailsJoined(t)
    \/ \E t \in DOMAIN thumbCalls : VisualizeFails(t)

(***************************************************************************)
(* Grounded Q&A: the "Ask Susu" box of the detail view.  The query is the  *)
(* sequence of its characters.                                             *)
(***************************************************************************)
\* what the user types: nothing, a blank, a letter, a blank and a letter
Queries == { <<>>, <<" ">>, <<"w">>, <<" ", "w">> }

\* input onChange: setAskSusuQuery(e.target.value)
TypeQuery(q) ==
    /\ view = "RECIPE_DETAIL"
    /\ ~IsNull(selectedRecipe)
    /\ askSusuQuery' = q
    /\ lastOp' = <<"other">>
    /\ UNCHANGED <<profileVars, recipeVars, navVars, draftVars, asyncVars, now,
                   enrichVars, susuResponse, isAskingSusu, askCalls, cookVars, lastMutated,
                   commitLog, discardedDrafts>>

RECURSIVE TrimStart(_)
TrimStart(q) == IF q # <<>> /\ Head(q) = " " THEN TrimStart(Tail(q)) ELSE q

RECURSIVE TrimEnd(_)
TrimEnd(q) ==
    IF q # <<>> /\ q[Len(q)] = " " THEN TrimEnd(SubSeq(q, 1, Len(q) - 1)) ELSE q

\* mutant of Trim: blanks are kept
Trim_KeepsBlanks(q) == q

\* String.prototype.trim
Trim(q) == TrimEnd(TrimStart(q))

\* selectedRecipe ? `${selectedRecipe.title}: ${selectedRecipe.description}` : undefined
AskContext(selected) ==
    IF ~IsNull(selected)
    THEN Some(<<Val(selected).title, ": ", Val(selected).description>>)
    ELSE Null

\* form onSubmit: handleAskSusu up to its await.  The submit button is disabled
\* while isAskingSusu; the handler does its own check of the query.
handleAskSusu ==
    /\ view = "RECIPE_DETAIL"
    /\ ~IsNull(selectedRecipe)
    /\ ~isAskingSusu
    /\ IF Trim(askSusuQuery) # <<>>
       THEN /\ isAskingSusu' = TRUE
            /\ askCalls' = Append(askCalls, [query |-> askSusuQuery,
                                             context |-> AskContext(selectedRecipe)])
            /\ lastOp' = <<"askRequested">>
       ELSE /\ UNCHANGED <<isAskingSusu, askCalls>>
            /\ lastOp' = <<"askIgnored">>
    /\ UNCHANGED <<profileVars, recipeVars, navVars, draftVars, asyncVars, now,
                   enrichVars, askSusuQuery, susuResponse, cookVars, lastMutated, commitLog,
                   discardedDrafts>>

\* what generateContent can answer: a text or none, with or without sources
AskAnswers == [text : {<<>>, <<"Try thyme">>}, sources : {<<>>, <<"web">>}]

NoAnswerText == <<"Sorry, dear, I couldn't find that right now.">>

\* the value askSusuWithGrounding resolves with
GroundedAnswer(response) ==
    [text |-> IF response.text # <<>> THEN response.text ELSE NoAnswerText,
     sources |-> response.sources]

\* askSusuWithGrounding resolved: setSusuResponse(result), finally
AskSucceeds(a, response) ==
    /\ a \in DOMAIN askCalls
    /\ susuResponse' = Some(GroundedAnswer(response))
    /\ isAskingSusu' = FALSE
    /\ askCalls' = RemoveAt(askCalls, a)
    /\ lastOp' = <<"askSucceeded">>
    /\ UNCHANGED <<profileVars, recipeVars, navVars, draftVars, asyncVars, now,
                   enrichVars, askSusuQuery, cookVars, lastMutated, commitLog, discardedDrafts>>

\* the message of the catch block of handleAskSusu
Apology ==
    [text |-> <<"Sorry love, I'm having a bit of trouble connecting to the internet.">>,
     sources |-> <<>>]

\* askSusuWithGrounding rejected: catch, finally
AskFails(a) ==
    /\ a \in DOMAIN askCalls
    /\ susuResponse' = Some(Apology)
    /\ isAskingSusu' = FALSE
    /\ askCalls' = RemoveAt(askCalls, a)
    /\ lastOp' = <<"askFailed">>
    /\ UNCHANGED <<profileVars, recipeVars, navVars, draftVars, asyncVars, now,
                   enrichVars, askSusuQuery, cookVars, lastMutated, commitLog, discardedDrafts>>

(***************************************************************************)
(* Cooking mode: a full-screen overlay above the header, showing one        *)
(* instruction of the displayed recipe at a time.                           *)
(***************************************************************************)
\* "Start Cooking Mode": setCurrentStepIndex(0); setView('COOKING_MODE')
StartCookingMode ==
    /\ view = "RECIPE_DETAIL"
    /\ ~IsNull(selectedRecipe)
    /\ currentStepIndex' = 0
    /\ SetView("COOKING_MODE")
    /\ lastOp' = <<"other">>
    /\ UNCHANGED <<profileVars, recipeVars, selectedRecipe, servingsMultiplier,
                   draftVars, narrationCalls, imageCalls, now, enrichVars, askVars,
                   lastMutated, commitLog, discardedDrafts>>

\* close button: setView('RECIPE_DETAIL'); setCurrentStepIndex(0)
ExitCookingMode ==
    /\ view = "COOKING_MODE"
    /\ ~IsNull(selectedRecipe)
    /\ currentStepIndex' = 0
    /\ SetView("RECIPE_DETAIL")
    /\ lastOp' = <<"other">>
    /\ UNCHANGED <<profileVars, recipeVars, selectedRecipe, servingsMultiplier,
                   draftVars, narrationCalls, imageCalls, now, enrichVars, askVars,
                   lastMutated, commitLog, discardedDrafts>>

Min(a, b) == IF a <= b THEN a ELSE b

\* right arrow, disabled on the last step:
\* setCurrentStepIndex(Math.min(instructions.length - 1, currentStepIndex + 1))
NextStep ==
    /\ view = "COOKING_MODE"
    /\ ~IsNull(selectedRecipe)
    /\ currentStepIndex # Len(Val(selectedRecipe).instructions) - 1
    /\ currentStepIndex' = Min(Len(Val(selectedRecipe).instructions) - 1,
                               currentStepIndex + 1)
    /\ lastOp' = <<"other">>
    /\ UNCHANGED <<profileVars, recipeVars, navVars, draftVars, asyncVars, now,
                   enrichVars, askVars, lastMutated, commitLog, discardedDrafts>>

\* left arrow, disabled on the first step:
\* setCurrentStepIndex(Math.max(0, currentStepIndex - 1))
PreviousStep ==
    /\ view = "COOKING_MODE"
    /\ ~IsNull(selectedRecipe)
    /\ currentStepIndex # 0
    /\ currentStepIndex' = Max(0, currentStepIndex - 1)
    /\ lastOp' = <<"other">>
    /\ UNCHANGED <<profileVars, recipeVars, navVars, draftVars, asyncVars, now,
                   enrichVars, askVars, lastMutated, commitLog, discardedDrafts>>

(***************************************************************************)
(* Initial state: first mount, nothing persisted yet, after the mount      *)
(* effects have run.                                                       *)
(***************************************************************************)
Init ==
    /\ users = DEFAULT_USERS
    /\ currentUser = DEFAULT_USERS[1]
    /\ recipes = INITIAL_RECIPES
    /\ storedUsers = DEFAULT_USERS
    /\ storedRecipes = INITIAL_RECIPES
    /\ view = "HOME"
    /\ selectedRecipe = Null
    /\ servingsMultiplier = 2
    /\ isGenerating = FALSE
    /\ creationStep = "MEDIA"
    /\ draftRecipe = Null
    /\ capturedImage = Null
    /\ recorder = Null
    /\ narrationCalls = <<>>
    /\ imageCalls = <<>>
    /\ now = Epoch
    /\ videoCalls = <<>>
    /\ thumbCalls = <<>>
    /\ enrichStarted = 0
    /\ askSusuQuery = <<>>
    /\ susuResponse = Null
    /\ isAskingSusu = FALSE
    /\ askCalls = <<>>
    /\ currentStepIndex = 0
    /\ lastOp = <<"other">>
    /\ lastMutated = [id \in UserIds |-> Snapshot(FindUser(DEFAULT_USERS, id)[1])]
    /\ commitLog = <<>>
    /\ discardedDrafts = {}

AvatarImages == { <<"selfie">> }

\* The profiles the user clicks on in the header menu and in the picker.
ClickedUserIds == {"susu", "dad"}

SwitchProfile ==
    \/ \E userId \in ClickedUserIds \cup {UnknownUserId} : handleSwitchUser(userId)
    \/ \E i \in DOMAIN users : users[i].id \in ClickedUserIds /\ PickProfile(i)

Navigate ==
    \/ NavHome
    \/ NavShoppingList
    \/ \E i \in DOMAIN recipes : OpenRecipe(i)

EditShoppingList ==
    \/ addToShoppingList
    \/ \E k \in DOMAIN currentUser.shoppingList : toggleChecked(k)
    \/ \E k \in DOMAIN currentUser.shoppingList : removeItem(k)
    \/ clearAll

\* Profile coordinator at the default serving scale.
(***************************************************************************)
(* Restart: the page is reloaded.  Every useState starts from its initial   *)
(* value again and the calls in flight are gone with the old page.  Then    *)
(* the effects of the first render run in order: the load effect reads the  *)
(* stored roster and collection and queues setUsers / setRecipes, the two   *)
(* persistence effects write the first render's seed values, the mirror     *)
(* effect queues its updater with the first render's currentUser.  The      *)
(* queued updates are applied in order and the persistence effects of the   *)
(* next render store the outcome.                                           *)
(***************************************************************************)
Restart ==
    /\ currentUser' = DEFAULT_USERS[1]
    /\ users' = MirrorRoster(storedUsers, DEFAULT_USERS[1])
    /\ storedUsers' = users'
    /\ recipes' = storedRecipes
    /\ storedRecipes' = recipes'
    /\ view' = "HOME"
    /\ selectedRecipe' = Null
    /\ servingsMultiplier' = 2
    /\ isGenerating' = FALSE
    /\ creationStep' = "MEDIA"
    /\ draftRecipe' = Null
    /\ capturedImage' = Null
    /\ recorder' = Null
    /\ narrationCalls' = <<>>
    /\ imageCalls' = <<>>
    /\ videoCalls' = <<>>
    /\ thumbCalls' = <<>>
    /\ askSusuQuery' = <<>>
    /\ susuResponse' = Null
    /\ isAskingSusu' = FALSE
    /\ askCalls' = <<>>
    /\ currentStepIndex' = 0
    /\ lastOp' = <<"restart">>
    /\ UNCHANGED <<now, enrichStarted, lastMutated, commitLog, discardedDrafts>>

NextProfile ==
    \/ SwitchProfile
    \/ Navigate
    \/ \E img \in AvatarImages : handleUpdateAvatar(img)
    \/ \E i \in DOMAIN recipes : ToggleFavoriteHome(i)
    \/ ToggleFavoriteDetail
    \/ EditShoppingList

SpecProfile == Init /\ [][NextProfile]_vars

\* Profiles across restarts.
NextRestart == NextProfile \/ Restart

SpecRestart == Init /\ [][NextRestart]_vars

\* Shopping list with serving scale.
NextShopping ==
    \/ Navigate
    \/ DecreaseServings
    \/ IncreaseServings
    \/ EditShoppingList

SpecShopping == Init /\ [][NextShopping]_vars

CaptureMedia ==
    \/ \E img \in Photos : CapturePhoto(img)
    \/ RetakePhoto
    \/ StartRecording
    \/ StopRecording

GatewayAnswers ==
    \/ \E i \in DOMAIN narrationCalls : \E genData \in GenResponses :
            NarrationSucceeds(i, genData)
    \/ \E i \in DOMAIN narrationCalls : NarrationFails(i)
    \/ \E j \in DOMAIN imageCalls : ImageResolves(j)
    \/ \E j \in DOMAIN imageCalls : ImageFails(j)

ReviewDraft ==
    \/ \E title \in TypedTitles : EditTitle(title)
    \/ Discard
    \/ handleSaveRecipe

\* Draft orchestrator, with the navigation that can leave the create view.
NextDraft ==
    \/ OpenCreate
    \/ Cancel
    \/ NavHome
    \/ \E userId \in ClickedUserIds : handleSwitchUser(userId)
    \/ CaptureMedia
    \/ GatewayAnswers
    \/ ReviewDraft

SpecDraft == Init /\ [][NextDraft]_vars

\* Draft orchestrator with video synthesis for the Draft.
NextDraftVideo ==
    \/ OpenCreate
    \/ StartRecording
    \/ StopRecording
    \/ \E i \in DOMAIN narrationCalls : \E genData \in GenResponses :
            genData.description = "" /\ NarrationSucceeds(i, genData)
    \/ ReviewDraft
    \/ ClickGenerateVideo
    \/ VideoAnswers

SpecDraftVideo == Init /\ [][NextDraftVideo]_vars

\* Recipe enrichment orchestrator: the detail view and the calls it starts.
NextEnrich ==
    \/ NavHome
    \/ \E i \in DOMAIN recipes : OpenRecipe(i)
    \/ ClickGenerateVideoForActiveRecipe
    \/ VideoAnswers
    \/ ClickVisualizeSteps
    \/ ThumbnailAnswers

SpecEnrich == Init /\ [][NextEnrich]_vars

\* The same, with the event loop delivering every timer and every answer of the
\* Gateway: a pending step of a video call is eventually taken.  What the Gateway
\* answers stays its own choice.
SpecEnrichFair == SpecEnrich /\ WF_vars(VideoAnswers)

\* The three enrichment buttons: a Draft is narrated and reviewed, stored recipes
\* are opened, and videos and thumbnails are requested for both and arrive.
NextOffered ==
    \/ OpenCreate
    \/ StartRecording
    \/ StopRecording
    \/ \E i \in DOMAIN narrationCalls : \E genData \in GenResponses :
          genData.title # "" /\ genData.description = "" /\ NarrationSucceeds(i, genData)
    \/ ClickGenerateVideo
    \/ NavHome
    \/ \E i \in DOMAIN recipes : OpenRecipe(i)
    \/ ClickGenerateVideoForActiveRecipe
    \/ ClickVisualizeSteps
    \/ \E v \in DOMAIN videoCalls : KeyCheckPasses(v)
    \/ \E v \in DOMAIN videoCalls : VideoSubmitted(v, TRUE)
    \/ \E v \in DOMAIN videoCalls : VideoSucceeds(v)
    \/ \E t \in DOMAIN thumbCalls : \E i \in PendingSteps(thumbCalls[t]) :
          ThumbnailResolves(t, i, TRUE)
    \/ \E t \in DOMAIN thumbCalls : ThumbnailsJoined(t)

SpecOffered == Init /\ [][NextOffered]_vars

\* Cooking mode, with the enrichment calls that can resolve while it is open.
\* The overlay covers the header, so the only way out is its close button.
NextCooking ==
    \/ view # "COOKING_MODE" /\ NavHome
    \/ \E i \in DOMAIN recipes : OpenRecipe(i)
    \/ StartCookingMode
    \/ ExitCookingMode
    \/ NextStep
    \/ PreviousStep
    \/ ClickGenerateVideoForActiveRecipe
    \/ VideoAnswers
    \/ ClickVisualizeSteps
    \/ ThumbnailAnswers

SpecCooking == Init /\ [][NextCooking]_vars

\* The ingredient list of seed recipes and of recipes created from a narration.
NextDisplay ==
    \/ OpenCreate
    \/ StartRecording
    \/ StopRecording
    \/ \E i \in DOMAIN narrationCalls : \E genData \in CostResponses :
          NarrationSucceeds(i, genData)
    \/ handleSaveRecipe
    \/ \E i \in DOMAIN recipes : OpenRecipe(i)
    \/ NavHome
    \/ DecreaseServings
    \/ IncreaseServings

SpecDisplay == Init /\ [][NextDisplay]_vars

\* Grounded Q&A in the detail view.
NextAsk ==
    \/ NavHome
    \/ \E i \in DOMAIN recipes : OpenRecipe(i)
    \/ \E q \in Queries : TypeQuery(q)
    \/ handleAskSusu
    \/ \E a \in DOMAIN askCalls : \E response \in AskAnswers : AskSucceeds(a, response)
    \/ \E a \in DOMAIN askCalls : AskFails(a)

SpecAsk == Init /\ [][NextAsk]_vars

Next ==
    \/ NextProfile
    \/ NextShopping
    \/ NextDraft
    \/ NextDraftVideo
    \/ NextEnrich
    \/ NextAsk
    \/ NextDisplay
    \/ NextCooking
    \/ Restart

Spec == Init /\ [][Next]_vars

(***************************************************************************)
(* Properties.                                                             *)
(***************************************************************************)
SeedSnapshot == [favorites |-> <<>>, shoppingList |-> <<>>]

\* the active profile has exactly one roster entry, and it is equal to it
ActiveMirrored ==
    /\ Cardinality({i \in DOMAIN users : users[i].id = currentUser.id}) = 1
    /\ \A i \in DOMAIN users : users[i].id = currentUser.id => users[i] = currentUser

\* this step changes a field of the profile that stays active
MutatesActive == currentUser' # currentUser /\ currentUser'.id = currentUser.id

\* every roster entry of another id is left as it was
OtherEntriesKept ==
    /\ DOMAIN users' = DOMAIN users
    /\ \A i \in DOMAIN users : users[i].id # currentUser.id => users'[i] = users[i]

\* C1: after every handler (with its mirror effect) the roster entry of the active
\* profile's id is unique and equal to the active profile, and a handler that
\* mutates the active profile (avatar, favorites, shopping list) leaves every
\* roster entry of another id unchanged.
C1_ActiveMirroredIntoRoster ==
    /\ []ActiveMirrored
    /\ [][MutatesActive => OtherEntriesKept]_vars

\* C1 witness: the active profile has been mutated while another roster entry
\* carries mutations of its own.
C1_Witness ==
    /\ currentUser.id = "dad"
    /\ currentUser.avatar = <<"selfie">>
    /\ users[1].favorites # <<>>

\* C2: after switching the active profile, the active profile carries the
\* favorites and the shopping list that profile had when it was last mutated.
C2_SwitchRoundTrip ==
    lastOp[1] = "switch" => Snapshot(currentUser) = lastMutated[currentUser.id]

\* C2 witness: susu was mutated, dad became active and was mutated, and the last
\* handler switched from dad back to susu.
C2_Witness ==
    /\ lastOp = <<"switch", "dad", "susu">>
    /\ currentUser.id = "susu"
    /\ currentUser.favorites # <<>>
    /\ lastMutated["dad"].shoppingList # <<>>

\* this step leaves the favorites of every non-active roster entry alone
OtherFavoritesKept ==
    \A i \in DOMAIN users :
        users[i].id # currentUser.id => users'[i].favorites = users[i].favorites

\* this step is a favorite toggle
ToggleStep == \E i \in DOMAIN recipes : toggleFavorite(recipes[i].id)

\* C3: two consecutive toggles of the same recipe by the same profile leave its
\* favorites equal, as a set, to what they were before the first toggle, and a
\* toggle changes no other profile's favorites.
C3_DoubleToggleRestores ==
    /\ [](lastOp[1] = "toggleFavorite" /\ ~IsNull(lastOp[4])
            => Range(currentUser.favorites) = Range(Val(lastOp[4])))
    /\ [][ToggleStep => OtherFavoritesKept]_vars

\* C3 witness: a recipe that was a favorite (next to another one) has been
\* toggled twice in a row.
C3_Witness ==
    /\ lastOp[1] = "toggleFavorite"
    /\ ~IsNull(lastOp[4])
    /\ Includes(Val(lastOp[4]), lastOp[2])
    /\ Len(Val(lastOp[4])) = 2

\* this step is a shopping-list handler
ShoppingStep ==
    \/ addToShoppingList
    \/ \E k \in DOMAIN currentUser.shoppingList : toggleChecked(k) \/ removeItem(k)
    \/ clearAll

\* this step leaves the shopping list of every non-active roster entry alone
OtherListsKept ==
    \A i \in DOMAIN users :
        users[i].id # currentUser.id => users'[i].shoppingList = users[i].shoppingList

\* this step put one unchecked item per ingredient of the displayed recipe behind
\* the items the active profile already had, in the active profile and in its
\* roster entry
AppendedUnchecked ==
    LET old == currentUser.shoppingList
        new == currentUser'.shoppingList
        n == Len(Val(selectedRecipe).ingredients) IN
    /\ currentUser'.id = currentUser.id
    /\ Len(new) = Len(old) + n
    /\ SubSeq(new, 1, Len(old)) = old
    /\ \A k \in (Len(old) + 1)..Len(new) : new[k].checked = FALSE
    /\ \A i \in DOMAIN users : users[i].id = currentUser.id => users'[i].shoppingList = new

\* C4: appendItems, toggleChecked, removeItem and clearAll change the shopping
\* list of no profile but the active one, and appendItems puts its items,
\* unchecked, at the end of the active profile's list.
C4_ShoppingScopedToActive ==
    [][(ShoppingStep => OtherListsKept) /\ (addToShoppingList => AppendedUnchecked)]_vars

\* C4 witness: dad is active and holds items while susu's roster entry holds
\* items of its own.
C4_Witness ==
    /\ currentUser.id = "dad"
    /\ currentUser.shoppingList # <<>>
    /\ users[1].shoppingList # <<>>

\* the "(x<m>)" annotation
ScaleAnnotation(m) == <<"(x", MultiplierText(m), ")">>

EndsWith(label, tail) ==
    /\ Len(label) >= Len(tail)
    /\ SubSeq(label, Len(label) - Len(tail) + 1, Len(label)) = tail

\* the items this step added carry the annotation of m exactly when m is not 1
AnnotatedIffScaled ==
    LET old == currentUser.shoppingList
        new == currentUser'.shoppingList IN
    \A k \in (Len(old) + 1)..Len(new) :
        IF servingsMultiplier # 2
        THEN EndsWith(new[k].item, ScaleAnnotation(servingsMultiplier))
        ELSE ~Includes(new[k].item, "(x")

\* C5: appendItems appends "(x<m>)" to the label of every added item whenever the
\* serving multiplier m differs from 1 (0.5 included), and nothing when m = 1.
C5_AnnotatedWheneverScaled == [][addToShoppingList => AnnotatedIffScaled]_vars

\* ids of the ingredients of every stored recipe
RecipeIngredientIds ==
    UNION { {recipes[i].ingredients[k].id : k \in DOMAIN recipes[i].ingredients} :
            i \in DOMAIN recipes }

\* the ids of a shopping list are pairwise different and none is an ingredient id
FreshIds(list) ==
    /\ \A j, k \in DOMAIN list : list[j].id = list[k].id => j = k
    /\ \A k \in DOMAIN list : list[k].id \notin RecipeIngredientIds

\* positions at which two lists of the same length differ
Changed(old, new) == {j \in DOMAIN old : new[j] # old[j]}

NarrationFailedStep ==
    /\ lastOp' = <<"narrationFailed">>
    /\ Len(narrationCalls') < Len(narrationCalls)

\* C7: when the transcribe-and-structure call fails, the creation step and the
\* Draft are left as they were (Capturing with no Draft stays Capturing with no
\* Draft), the recipe collection is unchanged, no hero-image request is issued
\* and the busy flag is cleared.
C7_NarrationFailureKeepsState ==
    [][NarrationFailedStep =>
        /\ creationStep' = creationStep
        /\ draftRecipe' = draftRecipe
        /\ (creationStep = "MEDIA" /\ IsNull(draftRecipe)
              => creationStep' = "MEDIA" /\ IsNull(draftRecipe'))
        /\ recipes' = recipes
        /\ storedRecipes' = storedRecipes
        /\ imageCalls' = imageCalls
        /\ isGenerating' = FALSE]_vars

\* C7 witness: a narration has just failed in the Capturing state.
C7_Witness ==
    /\ lastOp = <<"narrationFailed">>
    /\ view = "CREATE_RECIPE"
    /\ creationStep = "MEDIA"
    /\ IsNull(draftRecipe)
    /\ narrationCalls = <<>>
    /\ ~isGenerating

\* C8: when the hero-image request of a discarded Draft resolves, no Draft and no
\* Recipe changes.
C8_StaleHeroImageDropped ==
    [][\A j \in DOMAIN imageCalls :
          ImageResolves(j) /\ imageCalls[j].draftId \in discardedDrafts
            => draftRecipe' = draftRecipe /\ recipes' = recipes]_vars

\* this step is a click on "Save Recipe" while the Draft's title is empty
SaveWithEmptyTitle ==
    /\ ReviewShown
    /\ Val(draftRecipe).title = ""
    /\ handleSaveRecipe

\* C9: commit() on a Draft with an empty title changes neither the recipe
\* collection, nor the persisted collection, nor the Draft, the captured photo,
\* the creation step or the view.
C9_EmptyTitleRejected ==
    [][SaveWithEmptyTitle =>
        UNCHANGED <<recipes, storedRecipes, draftRecipe, capturedImage,
                    creationStep, view>>]_vars

\* C9 witness: "Save Recipe" has just been clicked on a Draft with an empty title.
C9_Witness ==
    /\ lastOp = <<"saveRejected">>
    /\ ReviewShown
    /\ Val(draftRecipe).title = ""

\* this step is a click on "Save Recipe" while the Draft has a title
SaveWithTitle ==
    /\ ReviewShown
    /\ Val(draftRecipe).title # ""
    /\ handleSaveRecipe

RecipeIds(rs) == [i \in DOMAIN rs |-> rs[i].id]

\* the committed recipes, newest first, then the seed recipes
CommittedAheadOfSeeds ==
    /\ RecipeIds(recipes) = commitLog \o RecipeIds(INITIAL_RECIPES)
    /\ \A j, k \in 1..Len(commitLog) :
          j < k => recipes[j].createdAt >= recipes[k].createdAt

\* C10: commit() on a Draft with a title puts exactly that Draft in front of the
\* stored recipes, which keep their content and order, persists the collection,
\* clears the Draft and returns to Capturing; the collection always lists the
\* committed recipes newest first, ahead of the seed recipes.
C10_CommitPrepends ==
    /\ [][SaveWithTitle =>
            /\ recipes' = <<Val(draftRecipe)>> \o recipes
            /\ storedRecipes' = recipes'
            /\ IsNull(draftRecipe')
            /\ creationStep' = "MEDIA"]_vars
    /\ []CommittedAheadOfSeeds

\* C10 witness: two Drafts have been committed, the second one just now.
C10_Witness ==
    /\ lastOp = <<"commit">>
    /\ Len(commitLog) = 2
    /\ Len(recipes) = Len(INITIAL_RECIPES) + 2
    /\ IsNull(draftRecipe)
    /\ creationStep = "MEDIA"

SwitchRequested(userId) ==
    /\ lastOp' = <<"switch", currentUser.id, userId>>
    /\ handleSwitchUser(userId)

\* C20: switchActive with an id that is not in the roster changes neither the
\* active profile, nor the roster, nor the view; with a known id the roster entry
\* of that id becomes the active profile, the view becomes HOME, and the roster
\* (so every profile's favorites and shopping list) stays as it was.
C20_SwitchActiveFrame ==
    [][\A userId \in ClickedUserIds \cup {UnknownUserId} :
          SwitchRequested(userId) =>
            IF IsNull(FindUser(users, userId))
            THEN UNCHANGED <<currentUser, users, storedUsers, view, selectedRecipe>>
            ELSE /\ currentUser' = Val(FindUser(users, userId))
                 /\ view' = "HOME"
                 /\ users' = users
                 /\ \A i \in DOMAIN users :
                       Snapshot(users'[i]) = Snapshot(users[i])]_vars

\* C20 witness: an unknown id has just been requested from the detail view by a
\* profile that holds a favorite, and nothing moved.
C20_UnknownWitness ==
    /\ lastOp = <<"switch", "susu", UnknownUserId>>
    /\ currentUser.id = "susu"
    /\ currentUser.favorites # <<>>
    /\ view = "RECIPE_DETAIL"

\* C12: generateVideo() with an empty title does nothing; when a video call made
\* for a Draft succeeds, only that Draft's video reference changes; when it fails
\* the Draft is unchanged; in both outcomes the creation step and the recipe
\* collection are unchanged; and when the Draft of the call has been discarded
\* in the meantime, the result changes no Draft.
C12_DraftVideoContract ==
    [][/\ (ClickGenerateVideo /\ Val(draftRecipe).title = "")
            => UNCHANGED <<videoCalls, draftVars, recipes>>
       /\ \A v \in DOMAIN videoCalls :
            videoCalls[v].kind = "draft" =>
              /\ VideoSucceeds(v) =>
                   /\ recipes' = recipes
                   /\ creationStep' = creationStep
                   /\ IF videoCalls[v].snap.id \in discardedDrafts
                      THEN draftRecipe' = draftRecipe
                      ELSE draftRecipe' =
                             AttachVideo(draftRecipe, VideoUrlFor(videoCalls[v].snap))
              /\ VideoFails(v) =>
                   UNCHANGED <<draftRecipe, recipes, creationStep>>]_vars

\* the entries of the collection that carry this id
EntriesWithId(rs, id) == {i \in DOMAIN rs : rs[i].id = id}

\* C13: when a video call made for a stored recipe succeeds, the video reference
\* is on the displayed recipe and on the one collection entry with the id of the
\* recipe that started the call, which are equal; every other entry is unchanged
\* and the collection is persisted.
C13_VideoWrittenThrough ==
    [][\A v \in DOMAIN videoCalls :
          (videoCalls[v].kind = "recipe" /\ VideoSucceeds(v)) =>
            LET snap == videoCalls[v].snap IN
            /\ Val(selectedRecipe').id = snap.id
            /\ Val(selectedRecipe').videoUrl = Some(VideoUrlFor(snap))
            /\ Cardinality(EntriesWithId(recipes', snap.id)) = 1
            /\ DOMAIN recipes' = DOMAIN recipes
            /\ \A i \in DOMAIN recipes :
                  recipes'[i] = IF recipes[i].id = snap.id
                                THEN Val(selectedRecipe') ELSE recipes[i]
            /\ storedRecipes' = recipes']_vars

\* C13 witness: the video made for rec-1 has just been attached; it is on the
\* displayed recipe and on the first collection entry, and not on the second.
C13_Witness ==
    /\ lastOp = <<"videoSucceeded", "recipe", <<"rec", 1>>>>
    /\ view = "RECIPE_DETAIL"
    /\ Val(selectedRecipe).videoUrl = Some(<<"video", <<"rec", 1>>>>)
    /\ recipes[1] = Val(selectedRecipe)
    /\ IsNull(recipes[2].videoUrl)

\* this step attaches the thumbnails of batch t
JoinStep(t) ==
    /\ PendingSteps(thumbCalls[t]) = {}
    /\ ThumbnailsJoined(t)

\* C14: the list attached by visualizeSteps has one entry per instruction, entry i
\* being the result for instruction i (its image or the empty placeholder) in
\* whatever order the per-step requests completed; the displayed recipe and the
\* stored entry then have as many thumbnails as instructions.
C14_ThumbnailsInInstructionOrder ==
    [][\A t \in DOMAIN thumbCalls :
          JoinStep(t) =>
            LET snap == thumbCalls[t].snap
                shown == Val(selectedRecipe')
                thumbnails == Val(shown.instructionThumbnails) IN
            /\ Len(thumbnails) = Len(shown.instructions)
            /\ shown.instructions = snap.instructions
            /\ \A i \in DOMAIN thumbnails :
                  thumbnails[i] \in {ThumbnailFor(snap.instructions[i], TRUE),
                                     ThumbnailFor(snap.instructions[i], FALSE)}
            /\ \A k \in DOMAIN thumbCalls[t].arrivals :
                  thumbnails[thumbCalls[t].arrivals[k].index]
                    = thumbCalls[t].arrivals[k].value
            /\ \A r \in EntriesWithId(recipes', snap.id) : recipes'[r] = shown]_vars

\* C14 witness: the second step of rec-1 completed before the first, both with an
\* image, and the list attached is in instruction order.
C14_Witness ==
    /\ lastOp = <<"thumbnailsAttached", <<"rec", 1>>, <<2, 1>>>>
    /\ Val(selectedRecipe).instructionThumbnails
         = Some(<< <<"thumb", "sear">>, <<"thumb", "simmer">> >>)
    /\ recipes[1].instructionThumbnails = Val(selectedRecipe).instructionThumbnails

\* C15: a per-step request that fails records the empty placeholder for its own
\* index only and changes nothing else; the batch is never failed by a step (it
\* can fail only before any step has resolved); nothing is attached before every
\* step has resolved, and the list attached then holds, per index, the image of a
\* step that succeeded and the placeholder of a step that failed.
C15_PartialFailureIsolated ==
    [][\A t \in DOMAIN thumbCalls :
          /\ \A i \in DOMAIN thumbCalls[t].snap.instructions : \A ok \in BOOLEAN :
                ThumbnailResolves(t, i, ok) =>
                  /\ thumbCalls'[t].arrivals
                       = Append(thumbCalls[t].arrivals,
                                [index |-> i,
                                 value |-> IF ok
                                           THEN <<"thumb", thumbCalls[t].snap.instructions[i]>>
                                           ELSE <<>>])
                  /\ UNCHANGED <<selectedRecipe, recipes, storedRecipes, isGenerating>>
          /\ (lastOp' = <<"visualizeFailed", thumbCalls[t].snap.id>> /\ VisualizeFails(t))
                => thumbCalls[t].arrivals = <<>>
          /\ ThumbnailsJoined(t) =>
                /\ Len(thumbCalls[t].arrivals) = Len(thumbCalls[t].snap.instructions)
                /\ \A k \in DOMAIN thumbCalls[t].arrivals :
                      Val(Val(selectedRecipe').instructionThumbnails)
                          [thumbCalls[t].arrivals[k].index]
                        = thumbCalls[t].arrivals[k].value]_vars

\* C15 witness: the first step of rec-1 failed, the second succeeded, and the
\* list attached holds a placeholder followed by the image of the second step.
C15_Witness ==
    /\ lastOp[1] = "thumbnailsAttached"
    /\ lastOp[2] = <<"rec", 1>>
    /\ recipes[1].instructionThumbnails = Some(<< <<>>, <<"thumb", "simmer">> >>)
    /\ ~isGenerating

\* C19: when a video call made for a stored recipe, or a thumbnail batch, fails,
\* the displayed recipe, the collection and its persisted copy, the Draft and the
\* view are unchanged and the busy flag is cleared, so the buttons work again.
C19_EnrichmentFailureKeepsState ==
    [][/\ \A v \in DOMAIN videoCalls :
            (videoCalls[v].kind = "recipe" /\ VideoFails(v)) =>
               /\ UNCHANGED <<selectedRecipe, recipes, storedRecipes, draftRecipe, view>>
               /\ isGenerating' = FALSE
       /\ \A t \in DOMAIN thumbCalls :
            VisualizeFails(t) =>
               /\ UNCHANGED <<selectedRecipe, recipes, storedRecipes, draftRecipe, view>>
               /\ isGenerating' = FALSE]_vars

\* C19 witness: a video call for the displayed recipe has just failed; the recipe
\* still has no video and the button is enabled again.
C19_Witness ==
    /\ lastOp = <<"videoFailed", "recipe", <<"rec", 2>>>>
    /\ view = "RECIPE_DETAIL"
    /\ Val(selectedRecipe).id = <<"rec", 2>>
    /\ IsNull(Val(selectedRecipe).videoUrl)
    /\ recipes = INITIAL_RECIPES
    /\ ~isGenerating
    /\ videoCalls = <<>>

\* the asking flag is set exactly while a call is in flight
AskingWhileInFlight == isAskingSusu <=> askCalls # <<>>

\* C16: ask() with an empty or blank query makes no Gateway call and leaves the
\* stored answer as it is; when the call fails the stored answer becomes the fixed
\* apology with no sources and nothing else changes; the asking flag is false
\* again as soon as the call has settled, whatever the outcome.
C16_AskContract ==
    /\ [][/\ (handleAskSusu /\ \A k \in DOMAIN askSusuQuery : askSusuQuery[k] = " ")
               => UNCHANGED <<askCalls, susuResponse, isAskingSusu>>
          /\ \A a \in DOMAIN askCalls :
               (lastOp' = <<"askFailed">> /\ AskFails(a)) =>
                  /\ susuResponse' = Some(Apology)
                  /\ Apology.sources = <<>>
                  /\ isAskingSusu' = FALSE
                  /\ UNCHANGED <<view, selectedRecipe, recipes, isGenerating>>
          /\ \A a \in DOMAIN askCalls : \A response \in AskAnswers :
               AskSucceeds(a, response) => isAskingSusu' = FALSE]_vars
    /\ []AskingWhileInFlight

\* C16 witness: a call made for a query with a leading blank has just failed.
C16_Witness ==
    /\ lastOp = <<"askFailed">>
    /\ askSusuQuery = <<" ", "w">>
    /\ susuResponse = Some(Apology)
    /\ ~isAskingSusu
    /\ askCalls = <<>>

\* C17: one generation request per invocation, polls until the first poll that
\* reports done and none after it; the call always ends with a result or an error,
\* even if the Gateway never reports done, and navigating away cancels it.  Stated
\* here as: a video call in flight is eventually over.
C17_VideoCallTerminates == (videoCalls # <<>>) ~> (videoCalls = <<>>)

\* C18: after a restart the roster and the collection in memory are the persisted
\* ones: every profile, the one active after startup included, has the favorites,
\* shopping list and avatar last persisted before the restart, and startup does not
\* overwrite persisted profile data with seed data.
C18_RestartRehydrates ==
    [][Restart =>
        /\ users' = storedUsers
        /\ storedUsers' = storedUsers
        /\ recipes' = storedRecipes
        /\ storedRecipes' = storedRecipes]_vars

\* C21: the serving multiplier starts at 1, is 1 again whenever a recipe is opened
\* from the collection, otherwise changes only by 0.5 up or down, and is always a
\* multiple of 0.5 not below 0.5 (the multiplier is kept in halves).
C21_MultiplierInHalfSteps ==
    /\ servingsMultiplier = 2
    /\ [](servingsMultiplier \in Nat /\ servingsMultiplier >= 1)
    /\ [][/\ (\E i \in DOMAIN recipes : OpenRecipe(i)) => servingsMultiplier' = 2
          /\ servingsMultiplier' # servingsMultiplier =>
                \/ \E i \in DOMAIN recipes : OpenRecipe(i)
                \/ IncreaseServings /\ servingsMultiplier' = servingsMultiplier + 1
                \/ DecreaseServings /\ servingsMultiplier' = servingsMultiplier - 1]_vars

\* C21 witness: the floor of 0.5 has been reached in the detail view.
C21_Witness ==
    /\ view = "RECIPE_DETAIL"
    /\ ~IsNull(selectedRecipe)
    /\ servingsMultiplier = 1

\* c * m to the nearest cent, an exact half cent going up
RoundHalfUp(cents, h) == (cents * h + 1) \div 2

\* c * m to the nearest cent, an exact half cent going to the even cent
RoundHalfEven(cents, h) ==
    IF (cents * h) % 2 = 0 THEN (cents * h) \div 2
    ELSE IF ((cents * h - 1) \div 2) % 2 = 0 THEN (cents * h - 1) \div 2
    ELSE (cents * h + 1) \div 2

\* C22: for every multiplier m and every ingredient with cost c the displayed cost
\* is c * m rounded to 2 decimal places (an exact half cent rounded up or to even);
\* the line carries no scale note at m = 1 and the note "(x m)" at any other m; and
\* changing the scale leaves the stored ingredients as they are.
C22_DisplayedCostScaled ==
    /\ [](\A k \in DOMAIN IngredientList :
            LET ing  == Val(selectedRecipe).ingredients[k]
                line == IngredientList[k] IN
            /\ line.cost \in {RoundHalfUp(ing.estimatedCost, servingsMultiplier),
                              RoundHalfEven(ing.estimatedCost, servingsMultiplier)}
            /\ servingsMultiplier = 2 => line.amount = <<ing.amount>>
            /\ servingsMultiplier # 2 =>
                 line.amount = <<ing.amount>> \o ScaleAnnotation(servingsMultiplier))
    /\ [][DecreaseServings \/ IncreaseServings =>
            UNCHANGED <<selectedRecipe, recipes, storedRecipes>>]_vars

\* C23: once the user has left the create view, by switching the profile or by
\* navigating away, the result of a narration or hero-image request that was in
\* flight changes no Draft field, not the creation step and no Recipe.
C23_LateResultsDropped ==
    [][view # "CREATE_RECIPE" /\ GatewayAnswers
          => UNCHANGED <<draftRecipe, creationStep, recipes>>]_vars

\* C24: the generate-video action is taken for the displayed recipe only while its
\* video reference is absent, the visualize-steps action only while its
\* instructionThumbnails field is absent, and generate-video for the Draft only
\* while the Draft has no video reference; in every state a button is offered only
\* for an absent field.
C24_OfferedOnlyWhileAbsent ==
    /\ [](/\ GenerateVideoOffered => IsNull(Val(selectedRecipe).videoUrl)
          /\ VisualizeStepsOffered => IsNull(Val(selectedRecipe).instructionThumbnails)
          /\ DraftVideoOffered => IsNull(Val(draftRecipe).videoUrl))
    /\ [][/\ ClickGenerateVideoForActiveRecipe =>
                view = "RECIPE_DETAIL" /\ IsNull(Val(selectedRecipe).videoUrl)
          /\ ClickVisualizeSteps =>
                view = "RECIPE_DETAIL" /\ IsNull(Val(selectedRecipe).instructionThumbnails)
          /\ ClickGenerateVideo =>
                view = "CREATE_RECIPE" /\ IsNull(Val(draftRecipe).videoUrl)]_vars

\* C24 witness: the displayed recipe has a video and no thumbnails, so that one
\* button is hidden and the other offered.
C24_Witness ==
    /\ view = "RECIPE_DETAIL"
    /\ ~IsNull(selectedRecipe)
    /\ ~IsNull(Val(selectedRecipe).videoUrl)
    /\ ~GenerateVideoOffered
    /\ VisualizeStepsOffered

\* C25: in every state the creation step is REVIEW exactly when a Draft exists:
\* after Cancel, Discard and commit, after re-entering the create view, and when a
\* narration result arrives after the user has left the create view.
C25_StepAgreesWithDraft == creationStep = "REVIEW" <=> ~IsNull(draftRecipe)

\* C26: a Draft's hero image is the captured photo only if a photo was supplied
\* for that narration: whenever the Draft is cleared (Discard, Cancel, commit) the
\* captured photo is cleared with it, so that it cannot reach the next Draft.
C26_PhotoClearedWithDraft ==
    [][~IsNull(draftRecipe) /\ IsNull(draftRecipe') => IsNull(capturedImage')]_vars

\* this step is the completion of a video call or of a thumbnail batch
EnrichmentCompletes ==
    \/ \E v \in DOMAIN videoCalls : VideoSucceeds(v)
    \/ \E t \in DOMAIN thumbCalls : ThumbnailsJoined(t)

\* C27: the completion of generateVideoFor or visualizeSteps never changes which
\* recipe is displayed: when the user has opened recipe B while a call started on
\* recipe A was in flight, B is still displayed after the call has resolved.
C27_CompletionKeepsDisplayed ==
    [][EnrichmentCompletes =>
         /\ IsNull(selectedRecipe') <=> IsNull(selectedRecipe)
         /\ ~IsNull(selectedRecipe) =>
               Val(selectedRecipe').id = Val(selectedRecipe).id]_vars

KeepsEnrichments(r, rs) ==
    \A k \in DOMAIN rs :
        rs[k].id = r.id =>
            /\ ~IsNull(r.videoUrl) => ~IsNull(rs[k].videoUrl)
            /\ ~IsNull(r.instructionThumbnails) => ~IsNull(rs[k].instructionThumbnails)

\* C29: no enrichment result is lost: when generateVideoFor and visualizeSteps are
\* both in flight for the same recipe and both succeed, then in either completion
\* order the stored entry and the displayed recipe carry the video reference and
\* the thumbnails; the completion of one never removes what the other has stored.
C29_NoEnrichmentLost ==
    [][EnrichmentCompletes =>
         /\ \A k \in DOMAIN recipes : KeepsEnrichments(recipes[k], recipes')
         /\ \A k \in DOMAIN recipes : KeepsEnrichments(recipes[k], selectedRecipe')]_vars

\* a narration, video or thumbnail call has set the busy flag and has not settled
CallRunning ==
    \/ narrationCalls # <<>>
    \/ \E v \in DOMAIN videoCalls : videoCalls[v].stage # "key"
    \/ thumbCalls # <<>>

\* C30: the shared busy flag is true exactly while at least one of submitNarration,
\* generateVideo, generateVideoFor and visualizeSteps is in flight: never false
\* while one of them is running, and false once all of them have settled.
C30_BusyWhileInFlight == isGenerating <=> CallRunning

====
